---- MODULE Spec2Model ----
(***************************************************************************)
(* A model of the AMPPI controller (disco/controllers/amppi.py) and of the *)
(* forward-model base class (disco/models/base.py).                        *)
(*                                                                         *)
(* Numbers.  A tensor element is a record [k, n, d]: k = "fin" with the    *)
(* exact rational n/d (d > 0, lowest terms), or one of the IEEE specials   *)
(* "nan", "pinf", "ninf" (then n = 0, d = 1).  Arithmetic is exact on the  *)
(* finite values and follows IEEE 754 on the specials (inf - inf = nan,    *)
(* 0 * inf = nan, nan propagates, every comparison with nan is false).     *)
(* Costs are measured in units of ln 2, so that th.exp(-x) is 2^(-x).      *)
(***************************************************************************)
EXTENDS Integers, Sequences, FiniteSets, TLC

----------------------------------------------------------------------------
(* Bounds of the model *)

\* n_samples, the number of sampled trajectories of every controller built
NSamples == 2
\* hz_len, the number of time steps of the control horizon
HzLen == 2
\* number of sigma points (tf.pts) of the transform used in transform mode
TfPts == 2
\* update_actions calls made on one controller
MaxCalls == 2
\* largest num_samples of a direct sample_params call
MaxNum == 2
\* value at which the attempt counter of rejection_sampling saturates
AttemptCap == 3

----------------------------------------------------------------------------
(* Numbers *)

Abs(x) == IF x < 0 THEN -x ELSE x

RECURSIVE GCD(_, _)
GCD(a, b) == IF b = 0 THEN a ELSE GCD(b, a % b)

\* the finite value n/d (d # 0), in lowest terms with a positive denominator
Fin(n, d) ==
    LET g == GCD(Abs(n), Abs(d))
        s == IF d < 0 THEN -1 ELSE 1
    IN  [k |-> "fin", n |-> (s * n) \div g, d |-> (s * d) \div g]

Num(n) == [k |-> "fin", n |-> n, d |-> 1]
NaN == [k |-> "nan", n |-> 0, d |-> 1]
PInf == [k |-> "pinf", n |-> 0, d |-> 1]
NInf == [k |-> "ninf", n |-> 0, d |-> 1]
Zero == Num(0)
One == Num(1)

\* th.isfinite
IsFinite(x) == x.k = "fin"

\* -1, 0 or 1 for a value that is not nan
Sign(x) ==
    CASE x.k = "pinf" -> 1
      [] x.k = "ninf" -> -1
      [] OTHER -> IF x.n > 0 THEN 1 ELSE IF x.n < 0 THEN -1 ELSE 0

FNeg(x) ==
    CASE x.k = "fin" -> [k |-> "fin", n |-> -x.n, d |-> x.d]
      [] x.k = "pinf" -> NInf
      [] x.k = "ninf" -> PInf
      [] OTHER -> NaN

FAdd(x, y) ==
    CASE x.k = "nan" \/ y.k = "nan" -> NaN
      [] x.k = "fin" /\ y.k = "fin" -> Fin(x.n * y.d + y.n * x.d, x.d * y.d)
      [] x.k = "fin" -> y
      [] y.k = "fin" -> x
      [] x.k = y.k -> x
      [] OTHER -> NaN

FSub(x, y) == FAdd(x, FNeg(y))

FMul(x, y) ==
    CASE x.k = "nan" \/ y.k = "nan" -> NaN
      [] x.k = "fin" /\ y.k = "fin" -> Fin(x.n * y.n, x.d * y.d)
      [] Sign(x) = 0 \/ Sign(y) = 0 -> NaN
      [] Sign(x) = Sign(y) -> PInf
      [] OTHER -> NInf

FDiv(x, y) ==
    CASE x.k = "nan" \/ y.k = "nan" -> NaN
      [] x.k = "fin" /\ y.k = "fin" ->
           IF y.n # 0 THEN Fin(x.n * y.d, x.d * y.n)
           ELSE IF x.n = 0 THEN NaN
           ELSE IF x.n > 0 THEN PInf ELSE NInf
      [] x.k = "fin" -> Zero
      [] y.k = "fin" -> IF Sign(y) >= 0 THEN x ELSE FNeg(x)
      [] OTHER -> NaN

\* x < y; false when either is nan
FLt(x, y) ==
    CASE x.k = "nan" \/ y.k = "nan" -> FALSE
      [] x.k = "fin" /\ y.k = "fin" -> x.n * y.d < y.n * x.d
      [] x.k = "ninf" -> y.k # "ninf"
      [] y.k = "pinf" -> x.k # "pinf"
      [] OTHER -> FALSE

RECURSIVE Pow2(_)
Pow2(e) == IF e = 0 THEN 1 ELSE 2 * Pow2(e - 1)

\* th.exp in the model's units: 2^x, exact at the integers and linear between
\* two consecutive integers; exp(-inf) = 0, exp(inf) = inf, exp(nan) = nan
FExp(x) ==
    CASE x.k = "nan" -> NaN
      [] x.k = "pinf" -> PInf
      [] x.k = "ninf" -> Zero
      [] OTHER ->
           LET f == x.n \div x.d
               r == x.n - f * x.d
           IN  IF f >= 0 THEN Fin(Pow2(f) * (x.d + r), x.d)
                         ELSE Fin(x.d + r, x.d * Pow2(-f))

\* th.clamp(x, lo, hi): nan stays nan
FClamp(x, lo, hi) ==
    IF FLt(x, lo) THEN lo ELSE IF FLt(hi, x) THEN hi ELSE x

RECURSIVE FSum(_)
FSum(s) == IF s = <<>> THEN Zero ELSE FAdd(Head(s), FSum(Tail(s)))

\* the minimum of a non-empty sequence of finite values (Tensor.min)
RECURSIVE FMinSeq(_)
FMinSeq(s) ==
    IF Len(s) = 1 THEN s[1]
    ELSE LET m == FMinSeq(Tail(s)) IN IF FLt(Head(s), m) THEN Head(s) ELSE m

\* a sequence given as a function on 1..n, with its entries evaluated
Tup(f) == f \o <<>>

\* Tensor.masked_select / boolean-mask indexing: the kept entries, in order
RECURSIVE MaskedSelect(_, _)
MaskedSelect(s, mask) ==
    IF s = <<>> THEN <<>>
    ELSE (IF Head(mask) THEN <<Head(s)>> ELSE <<>>)
             \o MaskedSelect(Tail(s), Tail(mask))

----------------------------------------------------------------------------
(* Values handed to the program *)

\* a missing distribution (params_dist is None)
NoDist == [some |-> FALSE, mean |-> <<>>, variance |-> <<>>, support |-> {}]
\* parameter distributions: the mean and the variance per coordinate, and the
\* values a draw of one coordinate can take
Dist1 == [some |-> TRUE, mean |-> <<2>>, variance |-> <<1>>, support |-> {1, 2}]
Dist2 == [some |-> TRUE, mean |-> <<2, 3>>, variance |-> <<1, 1>>, support |-> {2, 3}]
Dists == {Dist1, Dist2}

\* uncertain_params: None, or a list of parameter names
NoKeys == [some |-> FALSE, names |-> <<>>]
KeyLists == {[some |-> TRUE, names |-> <<"length">>],
             [some |-> TRUE, names |-> <<"mass", "length">>]}

\* x_min and x_max of a direct sample_params call
BoundVals == {NInf, Num(1), Num(3), PInf}

\* values of the params_sampling argument: the three strings, a transform
\* object, and values that are none of them ("random" is some other string,
\* "None" is Python's None)
SamplingArgs == {"none", "single", "extended", "MerweScaledUTF", "random", "None"}

\* Python truthiness of a params_sampling argument
Truthy(v) == v # "None"

\* noise values drawn for one action
EpsVals == {Num(-1), Num(1)}
\* entries of a caller-supplied init_actions
InitActionVals == {Fin(3, 2), NaN}
\* lambda_ of a controller
LambdaVals == {Num(2)}

\* What a cost function sees of a state: whether the action that produced it
\* was negative.  A cost function is a table over these two classes.
Features == {"neg", "pos"}
CostFn(neg, pos) == [f \in Features |-> IF f = "neg" THEN neg ELSE pos]
\* the pairs (inst_cost_fn, term_cost_fn) a controller is built with
CostFnPairs ==
    {<<CostFn(Zero, Zero), CostFn(Zero, Zero)>>,
     <<CostFn(NaN, One), CostFn(Zero, Zero)>>,
     <<CostFn(One, Zero), CostFn(PInf, Zero)>>,
     <<CostFn(Zero, Zero), CostFn(NInf, One)>>}

\* bounds of the action space (the pendulum's torque limit)
MaxTorque == 2
min_a == Num(-MaxTorque)
max_a == Num(MaxTorque)

\* no transform, and the transform object of transform mode: its point count
\* and its location weights 1/2 + 2^-P, 1/4, ..., 2^-P, which sum to 1
NoTf == [some |-> FALSE, pts |-> 0, loc_weights |-> <<>>]
LocWeights ==
    Tup([p \in 1..TfPts |->
        IF p = 1 THEN FAdd(Fin(1, 2), Fin(1, Pow2(TfPts))) ELSE Fin(1, Pow2(p))])
MerweScaledUTF == [some |-> TRUE, pts |-> TfPts, loc_weights |-> LocWeights]

\* tf.compute_sigma_points(mean, covariance): a dim x pts matrix, point p of
\* coordinate k at mean[k] + (p - 1) * variance[k]
ComputeSigmaPoints(mean, variance) ==
    Tup([k \in 1..Len(mean) |-> Tup([p \in 1..TfPts |-> mean[k] + (p - 1) * variance[k]])])

----------------------------------------------------------------------------
(* State *)

VARIABLES
    \* the forward model (BaseModel)
    model_state,         \* "unbuilt", "built", or "rejected" (__init__ raised)
    params_keys,         \* __params_keys
    params_dist,         \* __params_dist
    \* the controller (AMPPI)
    ctl_state,           \* "unbuilt", "built", or "rejected" (__init__ raised)
    params_sampling,     \* __params_sampling
    params_sample_shape, \* __params_sample_shape; 0 stands for None
    tf,                  \* __tf
    lambda_,
    inst_cost_fn,
    term_cost_fn,
    a_seq,               \* the nominal action sequence
    \* the call in progress
    pc,                  \* "idle", "sampling" (in rejection_sampling), "rollout"
    caller,              \* who called sample_params: "update" or "direct"
    num_samples, x_min, x_max,
    n_accepts, n_attempts, samples,
    last_draw, last_kept, \* the rows of the last draw, and which were accepted
    ret,                 \* what the last sample_params call returned
    eps, sampled_params,
    out_actions,         \* the actions array of the current update's rollouts
    out_states,          \* their states array (states_sp in transform mode)
    calls,               \* the calls made on the model by the current update
    costs, omega, bounded_omega,
    result,              \* what the last update_actions call returned
    a_old,               \* the nominal sequence when the last update began
    n_calls,
    op,                  \* the operation that ran last
    arg_sampling,        \* the params_sampling argument __init__ was called with
    err                  \* the exception the last operation raised, "" if none

model_vars == <<model_state, params_keys, params_dist>>
ctl_vars == <<ctl_state, params_sampling, params_sample_shape, tf, lambda_,
              inst_cost_fn, term_cost_fn, a_seq>>
sampling_vars == <<num_samples, x_min, x_max, n_accepts, n_attempts, samples,
                   last_draw, last_kept>>
update_vars == <<eps, sampled_params, out_actions, out_states, calls, costs, omega,
                 bounded_omega,
                 result, a_old, n_calls>>
vars == <<model_vars, ctl_vars, sampling_vars, update_vars, pc, caller, ret,
          op, arg_sampling, err>>

NoParams == [some |-> FALSE, cols |-> <<>>]
NoResult == [arity |-> 0, cost |-> Zero, states |-> <<>>, actions |-> <<>>,
             omega |-> <<>>]

Init ==
    /\ model_state = "unbuilt"
    /\ params_keys = NoKeys
    /\ params_dist = NoDist
    /\ ctl_state = "unbuilt"
    /\ params_sampling = "None"
    /\ params_sample_shape = 0
    /\ tf = NoTf
    /\ lambda_ = One
    /\ inst_cost_fn = CostFn(Zero, Zero)
    /\ term_cost_fn = CostFn(Zero, Zero)
    /\ a_seq = <<>>
    /\ pc = "idle"
    /\ caller = "direct"
    /\ num_samples = 0
    /\ x_min = NInf
    /\ x_max = PInf
    /\ n_accepts = 0
    /\ n_attempts = 0
    /\ samples = <<>>
    /\ last_draw = <<>>
    /\ last_kept = <<>>
    /\ ret = NoParams
    /\ eps = <<>>
    /\ out_actions = <<>>
    /\ out_states = <<>>
    /\ sampled_params = NoParams
    /\ calls = <<>>
    /\ costs = <<>>
    /\ omega = <<>>
    /\ bounded_omega = <<>>
    /\ result = NoResult
    /\ a_old = <<>>
    /\ n_calls = 0
    /\ op = ""
    /\ arg_sampling = "None"
    /\ err = ""

----------------------------------------------------------------------------
(* BaseModel *)

\* BaseModel.__init__: uncertain_params and params_dist are both given or both
\* missing; the distribution is then assigned through the setter
Model_Init(uncertain_params, dist) ==
    /\ model_state = "unbuilt"
    /\ IF uncertain_params.some # dist.some
         THEN /\ model_state' = "rejected"
              /\ err' = "AssertionError"
              /\ UNCHANGED <<params_keys, params_dist>>
         ELSE IF dist.some /\ Len(dist.mean) # Len(uncertain_params.names)
         THEN /\ model_state' = "rejected"
              /\ err' = "AssertionError"
              /\ UNCHANGED <<params_keys, params_dist>>
         ELSE /\ model_state' = "built"
              /\ params_keys' = uncertain_params
              /\ params_dist' = dist
              /\ err' = ""
    /\ op' = "Model_Init"
    /\ UNCHANGED <<ctl_vars, sampling_vars, update_vars, pc, caller, ret,
                   arg_sampling>>

\* SetParamsDist without the assertion
SetParamsDist_NoCheck(dist) ==
    /\ model_state = "built"
    /\ pc = "idle"
    /\ err' = ""
    /\ params_dist' = dist
    /\ op' = "SetParamsDist"
    /\ UNCHANGED <<model_state, params_keys, ctl_vars, sampling_vars,
                   update_vars, pc, caller, ret, arg_sampling>>

\* the params_dist setter: a distribution is checked against the number of
\* uncertain parameters before it is stored; None is stored unchecked
SetParamsDist(dist) ==
    /\ model_state = "built"
    /\ pc = "idle"
    /\ IF dist.some /\ ~params_keys.some
         THEN err' = "TypeError" /\ UNCHANGED params_dist
         ELSE IF dist.some /\ Len(dist.mean) # Len(params_keys.names)
         THEN err' = "AssertionError" /\ UNCHANGED params_dist
         ELSE err' = "" /\ params_dist' = dist
    /\ op' = "SetParamsDist"
    /\ UNCHANGED <<model_state, params_keys, ctl_vars, sampling_vars,
                   update_vars, pc, caller, ret, arg_sampling>>

\* one rejection test, as the two successive Tensor.where calls do it: a value
\* not strictly above x_min, or not strictly below x_max, becomes nan
ValidSample(v, lo, hi) ==
    LET v1 == IF FLt(lo, v) THEN v ELSE NaN
    IN  IF FLt(v1, hi) THEN v1 ELSE NaN

\* the rows kept of a draw: for one parameter the entries that are not nan,
\* for several the rows whose sum is not nan
KeptMask(valid, dim_params) ==
    Tup([r \in 1..Len(valid) |->
        IF dim_params = 1 THEN valid[r][1].k # "nan"
                          ELSE FSum(valid[r]).k # "nan"])

\* sample_params' result and to_params_dict: one column per uncertain
\* parameter, in the order of __params_keys
ToParamsDict(rows, dim_params) ==
    [some |-> TRUE,
     cols |-> Tup([k \in 1..dim_params |-> Tup([r \in 1..Len(rows) |-> rows[r][k]])])]

\* BaseModel.sample_params up to the loop of rejection_sampling: the two
\* assertions, then the counters of the loop
SampleParamsEnter(n, lo, hi, who) ==
    IF ~params_dist.some \/ n <= 0
      THEN /\ err' = "AssertionError"
           /\ pc' = "idle"
           /\ UNCHANGED <<caller, sampling_vars>>
      ELSE /\ err' = ""
           /\ pc' = "sampling"
           /\ caller' = who
           /\ num_samples' = n
           /\ x_min' = lo
           /\ x_max' = hi
           /\ n_accepts' = 0
           /\ n_attempts' = 0
           /\ samples' = <<>>
           /\ last_draw' = <<>>
           /\ last_kept' = <<>>

\* a direct call model.sample_params(num_samples, x_min, x_max)
SampleParams(n, lo, hi) ==
    /\ model_state = "built"
    /\ pc = "idle"
    /\ ret' = NoParams
    /\ SampleParamsEnter(n, lo, hi, "direct")
    /\ op' = "sample_params"
    /\ UNCHANGED <<model_vars, ctl_vars, update_vars, arg_sampling>>

\* one iteration of the while loop of rejection_sampling, and, when it was
\* the last, the return of rejection_sampling and of sample_params; valid,
\* kept and acc name the values of valid_samples, of the isnan mask and of
\* samples after the th.cat
RejectionStep ==
    /\ pc = "sampling"
    /\ n_accepts < num_samples
    /\ LET dim_params == Len(params_keys.names) IN
       \E draw \in [1..(num_samples - n_accepts) ->
                       [1..dim_params -> params_dist.support]] :
       \E valid \in {Tup([r \in 1..Len(draw) |->
                           Tup([k \in 1..dim_params |->
                               ValidSample(Num(draw[r][k]), x_min, x_max)])])} :
       \E kept \in {KeptMask(valid, dim_params)} :
       \E acc \in {samples \o MaskedSelect(valid, kept)} :
             /\ last_draw' = draw
             /\ last_kept' = kept
             /\ samples' = acc
             /\ n_accepts' = Len(acc)
             /\ n_attempts' = IF n_attempts < AttemptCap THEN n_attempts + 1
                                                         ELSE AttemptCap
             /\ IF Len(acc) < num_samples
                  THEN UNCHANGED <<pc, ret, sampled_params>>
                  ELSE IF caller = "update"
                  THEN /\ pc' = "rollout"
                       /\ sampled_params' = ToParamsDict(acc, dim_params)
                       /\ UNCHANGED ret
                  ELSE /\ pc' = "idle"
                       /\ ret' = ToParamsDict(acc, dim_params)
                       /\ UNCHANGED sampled_params
    /\ op' = "rejection_sampling"
    /\ UNCHANGED <<model_vars, ctl_vars, num_samples, x_min, x_max, caller, err,
                   eps, out_actions, out_states, calls, costs, omega, bounded_omega,
                   result, a_old,
                   n_calls, arg_sampling>>

----------------------------------------------------------------------------
(* AMPPI *)

n_samples == NSamples
hz_len == HzLen

\* the precision matrix th.inverse(a_cov) of the default a_cov, the identity
a_pre == One

\* SelectMode with the final else branch selecting no sampling instead of
\* raising
SelectMode_Lenient(arg) ==
    IF arg = "single"
      THEN [ok |-> TRUE, shape |-> 1, tf |-> NoTf]
    ELSE IF arg = "extended"
      THEN [ok |-> TRUE, shape |-> n_samples, tf |-> NoTf]
    ELSE IF arg = "MerweScaledUTF"
      THEN [ok |-> TRUE, shape |-> 0, tf |-> MerweScaledUTF]
    ELSE [ok |-> TRUE, shape |-> 0, tf |-> NoTf]

\* the branches of __init__ on params_sampling: whether the value is accepted,
\* and the __params_sample_shape and __tf it selects
SelectMode(arg) ==
    IF ~Truthy(arg) \/ arg = "none"
      THEN [ok |-> TRUE, shape |-> 0, tf |-> NoTf]
    ELSE IF arg = "single"
      THEN [ok |-> TRUE, shape |-> 1, tf |-> NoTf]
    ELSE IF arg = "extended"
      THEN [ok |-> TRUE, shape |-> n_samples, tf |-> NoTf]
    ELSE IF arg = "MerweScaledUTF"
      THEN [ok |-> TRUE, shape |-> 0, tf |-> MerweScaledUTF]
    ELSE [ok |-> FALSE, shape |-> 0, tf |-> NoTf]

\* init_actions: None (zeros) or a caller-supplied sequence
InitActions ==
    {Tup([t \in 1..hz_len |-> Zero])} \cup
    {Tup([t \in 1..hz_len |-> v]) : v \in InitActionVals}

\* AMPPI.__init__
AMPPI_Init(arg, lam, init_actions, inst_fn, term_fn) ==
    /\ ctl_state = "unbuilt"
    /\ model_state = "built"   \* the controller is built once its model exists
    /\ LET m == SelectMode(arg) IN
       IF m.ok
         THEN /\ ctl_state' = "built"
              /\ params_sampling' = arg
              /\ params_sample_shape' = m.shape
              /\ tf' = m.tf
              /\ lambda_' = lam
              /\ inst_cost_fn' = inst_fn
              /\ term_cost_fn' = term_fn
              /\ a_seq' = init_actions
              /\ err' = ""
         ELSE /\ ctl_state' = "rejected"
              /\ err' = "ValueError"
              /\ UNCHANGED <<params_sampling, params_sample_shape, tf, lambda_,
                             inst_cost_fn, term_cost_fn, a_seq>>
    /\ op' = "AMPPI_Init"
    /\ arg_sampling' = arg
    /\ UNCHANGED <<model_vars, sampling_vars, update_vars, pc, caller, ret>>

\* the state handed to update_actions, and the th.zeros the state arrays are
\* allocated with
X0 == [x0 |-> 1, hist |-> <<>>]
ZeroState == [x0 |-> 0, hist |-> <<>>]

\* the parameters of row r of a batch: none, the single sample shared by all
\* rows, or the row's own sample
ParamRow(sp, r) ==
    IF ~sp.some THEN <<>>
    ELSE Tup([k \in 1..Len(sp.cols) |->
             IF Len(sp.cols[k]) = 1 THEN sp.cols[k][1] ELSE sp.cols[k][r]])

\* model.step on a batch: a pure function of each row's state, action and
\* parameters; the next state is represented by what it was computed from
ModelStep(states_t, actions_t, sp) ==
    Tup([r \in 1..Len(states_t) |->
        [x0 |-> states_t[r].x0,
         hist |-> Append(states_t[r].hist,
                         [a |-> actions_t[r], p |-> ParamRow(sp, r)])]])

\* Actions with every action clamped to the action space
Actions_Clipped(e, aseq) ==
    Tup([i \in 1..Len(e) |->
        Tup([t \in 1..hz_len |-> FClamp(FAdd(e[i][t], aseq[t]), min_a, max_a)])])

\* th.add(eps, a_seq): the nominal sequence is added to every row of eps
Actions(e, aseq) ==
    Tup([i \in 1..Len(e) |-> Tup([t \in 1..hz_len |-> FAdd(e[i][t], aseq[t])])])

\* the rollout loop of _sample_trajectories and _sample_sigma_trajectories:
\* the batch of states after t steps
RECURSIVE StatesAt(_, _, _, _)
StatesAt(t, acts, sp, state) ==
    IF t = 0 THEN Tup([r \in 1..Len(acts) |-> state])
    ELSE ModelStep(StatesAt(t - 1, acts, sp, state),
                   Tup([r \in 1..Len(acts) |-> acts[r][t]]), sp)

\* the states array: row r holds the hz_len + 1 states of rollout r
Rollout(acts, sp, state) ==
    LET batches == Tup([t1 \in 1..(hz_len + 1) |-> StatesAt(t1 - 1, acts, sp, state)])
    IN  Tup([r \in 1..Len(acts) |->
            Tup([t1 \in 1..(hz_len + 1) |-> batches[t1][r]])])

\* StepCalls with the parameters passed to the first step only
StepCalls_FirstOnly(sp) ==
    Tup([t1 \in 1..hz_len |->
        [fn |-> "step", arg |-> t1 - 1, params |-> IF t1 = 1 THEN sp ELSE NoParams]])

\* the model calls of the rollout loop, in order
StepCalls(sp) ==
    Tup([t1 \in 1..hz_len |-> [fn |-> "step", arg |-> t1 - 1, params |-> sp]])

\* ActsSp with the whole batch tiled pts times (actions.repeat(pts, 1, 1)), so
\* that row r holds action sequence r mod n_samples
ActsSp_Tiled(actions, pts) ==
    Tup([r \in 1..(Len(actions) * pts) |-> actions[((r - 1) % Len(actions)) + 1]])

\* actions.repeat(1, pts, 1).view(-1, hz_len, dim_a): every row of actions is
\* tiled pts times along the time axis, and the result is cut into rows of
\* hz_len
ActsSp(actions, pts) ==
    LET repeated == Tup([n \in 1..Len(actions) |->
                       Tup([j \in 1..(pts * hz_len) |->
                           actions[n][((j - 1) % hz_len) + 1]])])
    IN  Tup([r \in 1..(Len(actions) * pts) |->
            Tup([t \in 1..hz_len |->
                LET f == (r - 1) * hz_len + (t - 1)
                IN  repeated[(f \div (pts * hz_len)) + 1][(f % (pts * hz_len)) + 1]])])

\* model.to_params_dict(params_sp.T.repeat(n_samples, 1)): the pts sigma
\* points, stacked n_samples times
SigmaParams(params_sp, pts) ==
    LET dim_params == Len(params_sp)
        transposed == Tup([p \in 1..pts |-> Tup([k \in 1..dim_params |-> Num(params_sp[k][p])])])
        rows == Tup([r \in 1..(n_samples * pts) |-> transposed[((r - 1) % pts) + 1]])
    IN  ToParamsDict(rows, dim_params)

\* what a cost function sees of a state
Feature(s) ==
    IF s.hist # <<>> /\ FLt(s.hist[Len(s.hist)].a, Zero) THEN "neg" ELSE "pos"

\* the control cost of every sample: lambda_ times the trace of
\* a_seq . a_pre . eps[i]^T
CtrlCosts(e, aseq, lam) ==
    Tup([i \in 1..Len(e) |->
        FMul(lam, FSum(Tup([t \in 1..hz_len |->
                              FMul(FMul(aseq[t], a_pre), e[i][t])])))])

\* _compute_cost with the instantaneous cost taken over states[:, :-1], the
\* initial state included and the last one left out
ComputeCost_FromInitial(states, e, aseq, inst_fn, term_fn, tfobj, lam) ==
    LET rows == Len(states)
        inst_rows == Tup([r \in 1..rows |->
                        FSum(Tup([t \in 1..hz_len |-> inst_fn[Feature(states[r][t])]]))])
        term_rows == Tup([r \in 1..rows |-> term_fn[Feature(states[r][hz_len + 1])]])
        Weighted(x) ==
            Tup([n \in 1..(rows \div tfobj.pts) |->
                FSum(Tup([p \in 1..tfobj.pts |->
                        FMul(x[(n - 1) * tfobj.pts + p], tfobj.loc_weights[p])]))])
        inst_costs == IF tfobj.some THEN Weighted(inst_rows) ELSE inst_rows
        term_costs == IF tfobj.some THEN Weighted(term_rows) ELSE term_rows
        ctrl_costs == CtrlCosts(e, aseq, lam)
    IN  Tup([i \in 1..Len(e) |->
            FAdd(FAdd(term_costs[i], inst_costs[i]), ctrl_costs[i])])

\* _compute_cost
ComputeCost(states, e, aseq, inst_fn, term_fn, tfobj, lam) ==
    LET rows == Len(states)
        flat == Tup([j \in 1..(rows * hz_len) |->
                    inst_fn[Feature(states[((j - 1) \div hz_len) + 1]
                                          [((j - 1) % hz_len) + 2])]])
        inst_rows == Tup([r \in 1..rows |->
                        FSum(Tup([t \in 1..hz_len |-> flat[(r - 1) * hz_len + t]]))])
        term_rows == Tup([r \in 1..rows |-> term_fn[Feature(states[r][hz_len + 1])]])
        Weighted(x) ==
            Tup([n \in 1..(rows \div tfobj.pts) |->
                FSum(Tup([p \in 1..tfobj.pts |->
                        FMul(x[(n - 1) * tfobj.pts + p], tfobj.loc_weights[p])]))])
        inst_costs == IF tfobj.some THEN Weighted(inst_rows) ELSE inst_rows
        term_costs == IF tfobj.some THEN Weighted(term_rows) ELSE term_rows
        ctrl_costs == CtrlCosts(e, aseq, lam)
    IN  Tup([i \in 1..Len(e) |->
            FAdd(FAdd(term_costs[i], inst_costs[i]), ctrl_costs[i])])

\* (-1 / lambda_)
NegInv(lam) == Fin(-lam.d, lam.n)

\* FiniteMask with ~isnan in place of isfinite
FiniteMask_NotNan(c) == Tup([i \in 1..Len(c) |-> c[i].k # "nan"])

\* th.isfinite(costs)
FiniteMask(c) == Tup([i \in 1..Len(c) |-> IsFinite(c[i])])

\* the minimum of the finite costs
Beta(c) == FMinSeq(MaskedSelect(c, FiniteMask(c)))

\* Eta summed over all costs instead of the finite ones
Eta_AllCosts(c, lam) ==
    LET beta == Beta(c)
    IN  FSum(Tup([j \in 1..Len(c) |->
                FExp(FMul(NegInv(lam), FSub(c[j], beta)))]))

\* the sum of exp((-1 / lambda_) * (finite_costs - beta))
Eta(c, lam) ==
    LET finite_costs == MaskedSelect(c, FiniteMask(c))
        beta == Beta(c)
    IN  FSum(Tup([j \in 1..Len(finite_costs) |->
                FExp(FMul(NegInv(lam), FSub(finite_costs[j], beta)))]))

\* Omega without the division by eta
Omega_Unnormalised(c, lam) ==
    LET beta == Beta(c)
    IN  Tup([i \in 1..Len(c) |-> FExp(FMul(NegInv(lam), FSub(c[i], beta)))])

\* omega = exp((-1 / lambda_) * (costs - beta)) / eta, for every sample
Omega(c, lam) ==
    LET beta == Beta(c)
        eta == Eta(c, lam)
    IN  Tup([i \in 1..Len(c) |->
            FDiv(FExp(FMul(NegInv(lam), FSub(c[i], beta))), eta)])

\* BoundedOmega without the masking
BoundedOmega_Unmasked(om) == om

\* omega.where(isfinite(omega), 0)
BoundedOmega(om) ==
    Tup([i \in 1..Len(om) |-> IF IsFinite(om[i]) THEN om[i] ELSE Zero])

\* th.tensordot(bounded_omega, eps, dims=1)
TensorDot(w, e) ==
    Tup([t \in 1..hz_len |->
        FSum(Tup([i \in 1..Len(w) |-> FMul(w[i], e[i][t])]))])

\* UpdatedSeq without the clamp
UpdatedSeq_NoClamp(aseq, w, e) ==
    LET dot == TensorDot(w, e)
    IN  Tup([t \in 1..hz_len |-> FAdd(aseq[t], dot[t])])

\* a_seq += tensordot(...), then a_seq = clamp(a_seq, min_a, max_a)
UpdatedSeq(aseq, w, e) ==
    LET dot == TensorDot(w, e)
        added == Tup([t \in 1..hz_len |-> FAdd(aseq[t], dot[t])])
    IN  Tup([t \in 1..hz_len |-> FClamp(added[t], min_a, max_a)])

\* finite_omega.dot(finite_costs)
ExpectedCost(om, c) ==
    LET fo == MaskedSelect(om, FiniteMask(c))
        fc == MaskedSelect(c, FiniteMask(c))
    IN  FSum(Tup([j \in 1..Len(fc) |-> FMul(fo[j], fc[j])]))

\* update_actions up to the rollout loop: the noise is drawn, and the
\* parameters of the rollouts are obtained as the mode requires
UpdateBegin ==
    /\ ctl_state = "built"
    /\ model_state = "built"
    /\ pc = "idle"
    /\ n_calls < MaxCalls
    /\ n_calls' = n_calls + 1
    /\ a_old' = a_seq
    /\ costs' = <<>>
    /\ omega' = <<>>
    /\ bounded_omega' = <<>>
    /\ out_actions' = <<>>
    /\ out_states' = <<>>
    /\ result' = NoResult
    /\ \E e \in [1..n_samples -> [1..hz_len -> EpsVals]] : eps' = e
    /\ IF tf.some
         THEN \* _sample_sigma_trajectories: mean and covariance are read off
              \* model.params_dist, which fails when there is none
              /\ calls' = <<>>
              /\ IF params_dist.some
                   THEN /\ sampled_params' =
                             SigmaParams(ComputeSigmaPoints(params_dist.mean,
                                                            params_dist.variance),
                                         tf.pts)
                        /\ pc' = "rollout"
                        /\ err' = ""
                   ELSE /\ err' = "AttributeError"
                        /\ UNCHANGED <<sampled_params, pc>>
              /\ UNCHANGED <<caller, sampling_vars>>
         ELSE IF params_sample_shape # 0
         THEN /\ calls' = <<[fn |-> "sample_params", arg |-> params_sample_shape,
                             params |-> NoParams]>>
              /\ SampleParamsEnter(params_sample_shape, NInf, PInf, "update")
              /\ UNCHANGED sampled_params
         ELSE /\ calls' = <<>>
              /\ sampled_params' = NoParams
              /\ pc' = "rollout"
              /\ err' = ""
              /\ UNCHANGED <<caller, sampling_vars>>
    /\ op' = "update_actions"
    /\ UNCHANGED <<model_vars, ctl_vars, ret, arg_sampling>>

\* update_actions from the rollout loop on: the rollouts, their costs, and
\* either the failure return or the weights, the update and the return
UpdateFinish ==
    /\ pc = "rollout"
    /\ LET acts_n == Actions(eps, a_seq)
           acts == IF tf.some THEN ActsSp(acts_n, tf.pts) ELSE acts_n
           sts == Rollout(acts, sampled_params, X0)
           c == ComputeCost(sts, eps, a_seq, inst_cost_fn, term_cost_fn,
                            tf, lambda_)
           finite_costs == MaskedSelect(c, FiniteMask(c))
       IN  /\ calls' = calls \o StepCalls(sampled_params)
           /\ out_actions' = acts_n
           /\ out_states' = sts
           /\ costs' = c
           /\ IF Len(finite_costs) = 0
                THEN /\ result' = [arity |-> 2, cost |-> PInf, states |-> <<>>,
                                   actions |-> <<>>, omega |-> <<Zero>>]
                     /\ UNCHANGED <<a_seq, omega, bounded_omega>>
                ELSE LET om == Omega(c, lambda_)
                         bounded == BoundedOmega(om)
                     IN  /\ omega' = om
                         /\ bounded_omega' = bounded
                         /\ a_seq' = UpdatedSeq(a_seq, bounded, eps)
                         /\ result' = [arity |-> 4,
                                       cost |-> ExpectedCost(om, c),
                                       states |-> sts, actions |-> acts_n,
                                       omega |-> om]
    /\ pc' = "idle"
    /\ err' = ""
    /\ op' = "update_actions"
    /\ UNCHANGED <<model_vars, ctl_state, params_sampling, params_sample_shape,
                   tf, lambda_, inst_cost_fn, term_cost_fn, sampling_vars,
                   eps, sampled_params, a_old, n_calls, caller, ret,
                   arg_sampling>>

----------------------------------------------------------------------------
(* Specifications *)

\* the model a controller plans with: without uncertain parameters, or with
\* one
BuildModel ==
    \/ Model_Init(NoKeys, NoDist)
    \/ Model_Init([some |-> TRUE, names |-> <<"length">>], Dist1)

BuildAnyModel ==
    \E up \in {NoKeys} \cup KeyLists, dist \in {NoDist} \cup Dists :
        Model_Init(up, dist)

BuildController ==
    \E arg \in SamplingArgs, lam \in LambdaVals, init \in InitActions,
       fns \in CostFnPairs :
        AMPPI_Init(arg, lam, init, fns[1], fns[2])

AssignDist == \E dist \in {NoDist} \cup Dists : SetParamsDist(dist)

CallSampleParams ==
    \E n \in 0..MaxNum, lo \in BoundVals, hi \in BoundVals : SampleParams(n, lo, hi)

\* a model and a controller planning with it
Next ==
    \/ BuildModel
    \/ BuildController
    \/ UpdateBegin
    \/ RejectionStep
    \/ UpdateFinish

Spec == Init /\ [][Next]_vars

\* a model alone: its distribution is reassigned and sampled by direct calls;
\* a call that has entered the loop of rejection_sampling keeps running
NextModel ==
    \/ BuildAnyModel
    \/ AssignDist
    \/ CallSampleParams
    \/ RejectionStep

SpecModel == Init /\ [][NextModel]_vars /\ WF_vars(RejectionStep)

----------------------------------------------------------------------------
(* Properties *)

\* update_actions has returned, and nothing was called since
Completed == pc = "idle" /\ op = "update_actions" /\ costs # <<>>
\* ... with at least one finite cost
Succeeded == Completed /\ \E i \in 1..Len(costs) : IsFinite(costs[i])
\* ... with no finite cost
Failed == Completed /\ \A i \in 1..Len(costs) : ~IsFinite(costs[i])

\* the weighted noise sum of the last call at time t, with the weight of a
\* sample taken as 0 when its omega is not finite
WeightedNoise(t) ==
    FSum(Tup([i \in 1..n_samples |->
                FMul(IF IsFinite(omega[i]) THEN omega[i] ELSE Zero, eps[i][t])]))

\* C1: when every sample's cost is non-finite (nan, +inf or -inf), the nominal
\* sequence after the call is the one before it, the reported cost is +inf, and
\* the result is the pair (inf, zeros(1)): no states, no actions and no
\* per-sample weights -- whatever calls came before.
C1_DegenerateFailure ==
    Failed =>
        /\ a_seq = a_old
        /\ result = [arity |-> 2, cost |-> PInf, states |-> <<>>,
                     actions |-> <<>>, omega |-> <<Zero>>]

\* a second call fails after a first call that had moved the nominal sequence
C1_Witness ==
    /\ Failed
    /\ n_calls >= 2
    /\ IsFinite(a_seq[1])
    /\ a_seq[1] \notin {Zero, Fin(3, 2)}

\* C2: after every call with at least one finite cost, every element of the
\* nominal sequence lies within [min_a, max_a].
C2_ClippingInvariant ==
    Succeeded =>
        \A t \in 1..hz_len :
            /\ IsFinite(a_seq[t])
            /\ ~FLt(a_seq[t], min_a)
            /\ ~FLt(max_a, a_seq[t])

\* an update that would have left the range, and was clipped to max_a
C2_Witness ==
    /\ Succeeded
    /\ \E t \in 1..hz_len :
          /\ FLt(max_a, FAdd(a_old[t], WeightedNoise(t)))
          /\ a_seq[t] = max_a

\* C3: when at least one cost is finite, the weights omega of the samples with
\* a finite cost are non-negative and sum to 1, and the weight used in the
\* update (bounded_omega) of every sample with a non-finite cost is exactly 0.
C3_WeightNormalization ==
    Succeeded =>
        /\ Len(omega) = n_samples
        /\ \A i \in 1..n_samples :
              IF IsFinite(costs[i])
                THEN IsFinite(omega[i]) /\ omega[i].n >= 0
                     /\ bounded_omega[i] = omega[i]
                ELSE bounded_omega[i] = Zero
        /\ FSum(MaskedSelect(omega, Tup([i \in 1..n_samples |-> IsFinite(costs[i])])))
               = One

\* a call with a finite cost and a -inf cost, whose omega is inf and is masked
C3_Witness ==
    /\ Succeeded
    /\ \E i, j \in 1..n_samples :
          /\ IsFinite(costs[i])
          /\ costs[j].k = "ninf"
          /\ omega[j].k = "pinf"
          /\ bounded_omega[j] = Zero

\* the params_sampling values the constructor's documentation lists
DocumentedArgs == {"none", "single", "extended", "MerweScaledUTF"}

\* the mode a built controller is in
Mode ==
    IF tf.some /\ params_sample_shape = 0 THEN "transform"
    ELSE IF ~tf.some /\ params_sample_shape = 0 THEN "none"
    ELSE IF ~tf.some /\ params_sample_shape = 1 THEN "single"
    ELSE IF ~tf.some /\ params_sample_shape = n_samples THEN "extended"
    ELSE "no mode"

\* what the constructor decided on its params_sampling argument
ModeDecided ==
    ctl_state # "unbuilt" =>
        /\ ctl_state = "rejected" <=>
              (arg_sampling \notin DocumentedArgs /\ arg_sampling # "None")
        /\ ctl_state = "rejected" => (op = "AMPPI_Init" /\ err = "ValueError" /\ n_calls = 0)
        /\ ctl_state = "built" =>
              /\ params_sampling = arg_sampling
              /\ Mode = CASE arg_sampling = "single" -> "single"
                          [] arg_sampling = "extended" -> "extended"
                          [] arg_sampling = "MerweScaledUTF" -> "transform"
                          [] OTHER -> "none"
        /\ err = "ValueError" => op = "AMPPI_Init"

\* C4: a params_sampling value that is truthy and is none of 'none', 'single',
\* 'extended' and a transform object makes the constructor raise ValueError,
\* before any update; a falsy value (None) is accepted and selects no sampling,
\* like 'none'; an accepted value selects exactly one of the four modes, and
\* the mode of a built controller never changes.
C4_ModeFixedAtConstruction ==
    [][/\ ModeDecided'
       /\ ctl_state = "built" =>
             UNCHANGED <<ctl_state, params_sampling, params_sample_shape, tf>>]_vars

\* the constructor has raised on the string 'random'
C4_Witness ==
    /\ ctl_state = "rejected"
    /\ arg_sampling = "random"
    /\ err = "ValueError"

\* C4 as stated: every value other than the four documented ones is rejected
C4_AsStated ==
    (ctl_state # "unbuilt" /\ arg_sampling \notin DocumentedArgs) =>
        ctl_state = "rejected"

\* both cost functions return 0 for every input
ZeroCostFns ==
    /\ \A f \in Features : inst_cost_fn[f] = Zero
    /\ \A f \in Features : term_cost_fn[f] = Zero

\* omega is 1/N for every sample, and the nominal sequence is the old one plus
\* the mean of the noise, clipped
UniformUpdate ==
    /\ Len(omega) = n_samples
    /\ \A i \in 1..n_samples : omega[i] = Fin(1, n_samples)
    /\ \A t \in 1..hz_len :
          a_seq[t] = FClamp(FAdd(a_old[t],
                                 FDiv(FSum(Tup([i \in 1..n_samples |-> eps[i][t]])),
                                      Num(n_samples))),
                            min_a, max_a)

\* the control cost of the last call is the same finite value for all samples
EqualCtrlCosts ==
    LET cc == CtrlCosts(eps, a_old, lambda_)
    IN  \A i \in 1..n_samples : IsFinite(cc[i]) /\ cc[i] = cc[1]

\* C5: if both cost functions return 0 for every input and the control cost
\* lambda_ * sum_t a_seq[t] * a_pre * eps[i][t] is the same finite value for
\* every sample (as it is for an all-zero nominal sequence), then omega[i] = 1/N
\* for all N samples and the nominal sequence becomes
\* clip(old nominal + mean over samples of eps).
C5_UniformWeights ==
    (Completed /\ ZeroCostFns /\ EqualCtrlCosts) => UniformUpdate

\* a non-zero nominal sequence and two different noise rows of equal control
\* cost
C5_Witness ==
    /\ Completed
    /\ ZeroCostFns
    /\ EqualCtrlCosts
    /\ a_old[1] # Zero
    /\ eps[1] # eps[2]

\* C5 as stated: for every (finite) nominal sequence and every noise array
C5_AsStated ==
    (Completed /\ ZeroCostFns /\ \A t \in 1..hz_len : IsFinite(a_old[t])) =>
        UniformUpdate

\* the sample_params call the mode of the controller requires
ExpectedSampling ==
    IF params_sampling = "single"
      THEN <<[fn |-> "sample_params", arg |-> 1, params |-> NoParams]>>
    ELSE IF params_sampling = "extended"
      THEN <<[fn |-> "sample_params", arg |-> n_samples, params |-> NoParams]>>
    ELSE <<>>

\* the parameter set the mode of the controller requires
ExpectedParams ==
    IF params_sampling = "single"
      THEN sampled_params.some
           /\ \A k \in 1..Len(sampled_params.cols) : Len(sampled_params.cols[k]) = 1
    ELSE IF params_sampling = "extended"
      THEN sampled_params.some
           /\ \A k \in 1..Len(sampled_params.cols) :
                 Len(sampled_params.cols[k]) = n_samples
    ELSE IF params_sampling = "MerweScaledUTF"
      THEN sampled_params.some
           /\ \A k \in 1..Len(sampled_params.cols) :
                 Len(sampled_params.cols[k]) = n_samples * TfPts
    ELSE sampled_params = NoParams

\* C6: within one update_actions call, sample_params is called once, before
\* the first step, in 'single' mode (for 1 sample) and in 'extended' mode (for
\* n_samples samples), and not at all in 'none' and transform modes; step is
\* then called hz_len times, for t = 0..hz_len-1 in order, each time with the
\* same parameter set (none in 'none' mode, the sigma points in transform mode).
C6_CallSequence ==
    /\ (pc = "sampling" /\ caller = "update") => calls = ExpectedSampling
    /\ pc = "rollout" => (calls = ExpectedSampling /\ ExpectedParams)
    /\ Completed =>
          /\ ExpectedParams
          /\ Len(calls) = Len(ExpectedSampling) + hz_len
          /\ SubSeq(calls, 1, Len(ExpectedSampling)) = ExpectedSampling
          /\ \A t \in 1..hz_len :
                calls[Len(ExpectedSampling) + t] =
                    [fn |-> "step", arg |-> t - 1, params |-> sampled_params]

\* a second call of a controller in 'single' mode has returned
C6_Witness ==
    /\ Completed
    /\ params_sampling = "single"
    /\ n_calls = 2
    /\ Len(calls) = 1 + hz_len
    /\ calls[1].fn = "sample_params"

\* the nominal sequence a successful call leaves: every entry of the previous
\* one plus the weighted noise sum, clipped
ClippedUpdate ==
    Tup([t \in 1..hz_len |->
        FClamp(FAdd(a_old[t], WeightedNoise(t)), min_a, max_a)])

\* C10: a successful update_actions call sets the nominal sequence, in its one
\* step, to clip(old[t] + sum_i w[i] * eps[i][t], min_a, max_a) for every t,
\* with w[i] = omega[i] where omega[i] is finite and 0 elsewhere; nothing else
\* changes the nominal sequence of a built controller.
C10_NominalUpdate ==
    /\ [](Succeeded => a_seq = ClippedUpdate)
    /\ [][/\ (pc = "rollout" /\ Succeeded') => a_old' = a_seq
          /\ (ctl_state = "built" /\ a_seq' # a_seq) =>
                (pc = "rollout" /\ Succeeded')]_vars

\* a successful call that moved the nominal sequence while a sample of
\* non-finite cost had a non-finite omega
C10_Witness ==
    /\ Succeeded
    /\ a_seq # a_old
    /\ \E j \in 1..n_samples : ~IsFinite(costs[j]) /\ ~IsFinite(omega[j])
    /\ a_seq = ClippedUpdate

\* row r of the last draw lies within [x_min, x_max] in every coordinate
InsideBounds(r) ==
    \A k \in 1..Len(last_draw[r]) :
        /\ ~FLt(Num(last_draw[r][k]), x_min)
        /\ ~FLt(x_max, Num(last_draw[r][k]))

\* C7 as stated: a direct sample_params call that has returned gives exactly
\* num_samples values for every uncertain parameter; a row of a draw is
\* rejected if and only if one of its coordinates lies outside [x_min, x_max];
\* the number of accepted samples never exceeds num_samples; and without a
\* distribution the call fails without drawing.
C7_AsStated ==
    /\ (op = "rejection_sampling" /\ pc = "idle") =>
          /\ ret.some
          /\ Len(ret.cols) = Len(params_keys.names)
          /\ \A k \in 1..Len(ret.cols) : Len(ret.cols[k]) = num_samples
    /\ op = "rejection_sampling" =>
          \A r \in 1..Len(last_draw) : last_kept[r] <=> InsideBounds(r)
    /\ n_accepts <= num_samples
    /\ (op = "sample_params" /\ ~params_dist.some) =>
          (err = "AssertionError" /\ pc = "idle" /\ ~ret.some)

\* no value the distribution can produce passes the rejection test
ZeroAcceptance ==
    /\ params_dist.some
    /\ \A v \in params_dist.support : ValidSample(Num(v), x_min, x_max).k = "nan"

\* C8 as stated: a sample_params call whose bounds reject every draw stops
\* sampling (with a sampling-exhausted error).
C8_AsStated == (pc = "sampling" /\ ZeroAcceptance) ~> (pc # "sampling")

\* C9: a distribution whose mean has not one entry per uncertain parameter is
\* refused by the constructor and by the params_dist setter, which raise and
\* leave the distribution held before in place: a model's params_dist, when
\* not None, always has exactly one mean entry per uncertain parameter.
C9_DistMatchesParams ==
    /\ [](params_dist.some =>
             (params_keys.some /\ Len(params_dist.mean) = Len(params_keys.names)))
    /\ [](model_state = "rejected" => (err = "AssertionError" /\ ~params_dist.some))
    /\ [][(op' = "SetParamsDist" /\ err' # "") => params_dist' = params_dist]_vars

\* the setter has refused a distribution, and the one held before is in place
C9_Witness ==
    /\ op = "SetParamsDist"
    /\ err = "AssertionError"
    /\ params_dist.some
    /\ Len(params_dist.mean) = Len(params_keys.names)

\* the cost of sample i of the last call, from the states of its rollout, the
\* noise, and the nominal sequence the call began with
SampleCost(i) ==
    LET term == term_cost_fn[Feature(out_states[i][hz_len + 1])]
        inst == FSum(Tup([t \in 1..hz_len |->
                            inst_cost_fn[Feature(out_states[i][t + 1])]]))
        ctrl == FMul(lambda_,
                     FSum(Tup([t \in 1..hz_len |->
                                 FMul(FMul(a_old[t], a_pre), eps[i][t])])))
    IN  FAdd(FAdd(term, inst), ctrl)

\* C11: without a transform, the cost of every sample i is the terminal cost
\* of its last state, plus the instantaneous costs of its states 1..hz_len (the
\* initial state is not charged), plus lambda_ times the sum over t of
\* nominal[t] * a_pre * eps[i][t], with the nominal sequence as it was when the
\* call began.
C11_CostFormula ==
    (Completed /\ ~tf.some) =>
        /\ Len(costs) = n_samples
        /\ \A i \in 1..n_samples : costs[i] = SampleCost(i)

\* a successful call that moved a non-zero nominal sequence, with an
\* instantaneous cost the initial state would be charged, and samples of
\* different cost
C11_Witness ==
    /\ Succeeded
    /\ ~tf.some
    /\ inst_cost_fn["pos"] = One
    /\ a_old[1] = Fin(3, 2)
    /\ a_seq # a_old
    /\ costs[1] # costs[2]
    /\ \A i \in 1..n_samples : costs[i] = SampleCost(i)

\* sigma point p (from 0) of the model's distribution, as the parameters of
\* one rollout
SigmaPoint(p) ==
    LET params_sp == ComputeSigmaPoints(params_dist.mean, params_dist.variance)
    IN  Tup([k \in 1..Len(params_sp) |-> Num(params_sp[k][p + 1])])

\* the terminal plus instantaneous cost of row r (from 1) of the rollout batch
RowCost(r) ==
    FAdd(term_cost_fn[Feature(out_states[r][hz_len + 1])],
         FSum(Tup([t \in 1..hz_len |-> inst_cost_fn[Feature(out_states[r][t + 1])]])))

\* the control cost of sample i of the last call
CtrlCost(i) ==
    FMul(lambda_,
         FSum(Tup([t \in 1..hz_len |-> FMul(FMul(a_old[t], a_pre), eps[i][t])])))

\* C12: in transform mode, with N samples and P sigma points, the rollout batch
\* has N * P rows; row n * P + p was rolled out with action sequence n and with
\* sigma point p as its parameters at every step; and the cost vector has
\* length N, the cost of sample n being the sum over p of
\* loc_weights[p] * cost of row n * P + p (rows n * P .. n * P + P - 1 and no
\* others), plus the control cost of sample n.
C12_SigmaPointRows ==
    (Completed /\ tf.some) =>
        /\ Len(out_states) = n_samples * tf.pts
        /\ Len(out_actions) = n_samples
        /\ Len(costs) = n_samples
        /\ \A n \in 0..(n_samples - 1) : \A p \in 0..(tf.pts - 1) :
              \A t \in 1..hz_len :
                 LET step == out_states[n * tf.pts + p + 1][t + 1].hist[t]
                 IN  /\ step.a = out_actions[n + 1][t]
                     /\ step.p = SigmaPoint(p)
        /\ \A n \in 0..(n_samples - 1) :
              costs[n + 1] =
                  FAdd(FSum(Tup([p1 \in 1..tf.pts |->
                                   FMul(tf.loc_weights[p1], RowCost(n * tf.pts + p1))])),
                       CtrlCost(n + 1))

\* a call in transform mode whose samples have different noise and different
\* finite costs, with sigma points that differ
C12_Witness ==
    /\ Completed
    /\ tf.some
    /\ eps[1] # eps[2]
    /\ IsFinite(costs[1]) /\ IsFinite(costs[2])
    /\ RowCost(1) # RowCost(tf.pts + 1)
    /\ SigmaPoint(0) # SigmaPoint(1)
    /\ Len(out_states) = n_samples * tf.pts

\* column t (from 0) of the states array, and of the actions array, of the
\* last call
StatesColumn(t) == Tup([i \in 1..Len(out_states) |-> out_states[i][t + 1]])
ActionsColumn(t) == Tup([i \in 1..Len(out_actions) |-> out_actions[i][t + 1]])

====
